---- MODULE Spec2Model ----
(***************************************************************************)
(* Model of rs-reals2array (src/lib.rs): NaN-to-null conversion of float   *)
(* iterators into Arrow primitive arrays, and extraction of an optional    *)
(* f64 from a serde_json value.                                            *)
(*                                                                         *)
(* A float is its IEEE-754 bit pattern, written as big-endian bytes (2 for *)
(* Float16, 4 for Float32, 8 for Float64), so that the NaN predicate is    *)
(* computed from exponent and mantissa.  Option<X> is a sequence of length *)
(* 0 (None) or 1 (Some).                                                   *)
(***************************************************************************)
EXTENDS Integers, Sequences, FiniteSets

VARIABLES pc, fname, T, src, rest, cap, bldr, n, o, arr, jv, ret,
          nAppend, nFinish

vars == <<pc, fname, T, src, rest, cap, bldr, n, o, arr, jv, ret,
          nAppend, nFinish>>

(* Bounds of the model *)
MaxLen == 3
MaxCap == 2
MaxInt == 3

(* ---------------------------------------------------------------------- *)
(* Option                                                                  *)
(* ---------------------------------------------------------------------- *)
None == <<>>
Some(x) == <<x>>
is_some(opt) == Len(opt) = 1
unwrap(opt) == opt[1]
then_some(b, x) == IF b THEN Some(x) ELSE None

(* ---------------------------------------------------------------------- *)
(* Float types                                                             *)
(* ---------------------------------------------------------------------- *)
FloatTypes == {"Float16Type", "Float32Type", "Float64Type"}

Bytes(t) == CASE t = "Float16Type" -> 2
              [] t = "Float32Type" -> 4
              [] t = "Float64Type" -> 8

ExpBits(t) == CASE t = "Float16Type" -> 5
                [] t = "Float32Type" -> 8
                [] t = "Float64Type" -> 11

(* the first 16 bits: sign, exponent and the high mantissa bits *)
Top(val) == val[1] * 256 + val[2]

(* mantissa bits held by the first 16 bits: 15 - ExpBits *)
ManDiv(t) == 2 ^ (15 - ExpBits(t))

ExpOf(t, val) == (Top(val) % 32768) \div ManDiv(t)
ManIsZero(t, val) ==
    /\ Top(val) % ManDiv(t) = 0
    /\ \A i \in 3..Len(val) : val[i] = 0

(* bit pattern with the first 16 bits w1, the last byte `low` (when there *)
(* are more than two bytes) and zero in between                          *)
Bits(t, w1, low) ==
    [i \in 1..Bytes(t) |-> IF i = 1 THEN w1 \div 256
                           ELSE IF i = 2 THEN w1 % 256
                           ELSE IF i = Bytes(t) THEN low ELSE 0]

ExpMax(t) == 2 ^ ExpBits(t) - 1
Bias(t) == 2 ^ (ExpBits(t) - 1) - 1

One(t)       == Bits(t, Bias(t) * ManDiv(t), 0)
ThreeHalf(t) == Bits(t, (Bias(t) + 1) * ManDiv(t) + 3 * (ManDiv(t) \div 4), 0)
PosInf(t)    == Bits(t, ExpMax(t) * ManDiv(t), 0)
NegInf(t)    == Bits(t, 32768 + ExpMax(t) * ManDiv(t), 0)
NegZero(t)   == Bits(t, 32768, 0)
(* signalling NaN whose payload is the lowest mantissa bit only *)
LowNaN(t)    == IF Bytes(t) = 2 THEN Bits(t, ExpMax(t) * ManDiv(t) + 1, 0)
                ELSE Bits(t, ExpMax(t) * ManDiv(t), 1)
(* quiet NaN with the sign bit set *)
NegNaN(t)    == Bits(t, 32768 + ExpMax(t) * ManDiv(t) + ManDiv(t) \div 2, 0)

Floats(t) == {One(t), PosInf(t), NegInf(t), NegZero(t), LowNaN(t), NegNaN(t)}

(* T::Native::default(): +0.0 *)
default(t) == Bits(t, 0, 0)

(* a NaN test that looks at the first 16 bits only *)
is_nan_top_word(t, val) == ExpOf(t, val) = ExpMax(t) /\ Top(val) % ManDiv(t) # 0

(* FloatType::is_nan: val.is_nan() of f16 / f32 / f64 *)
FloatType_is_nan(t, val) == ExpOf(t, val) = ExpMax(t) /\ ~ManIsZero(t, val)

is_nan(t, num) == FloatType_is_nan(t, num)

(* a normalization that turns every non-finite value into None *)
nan2none_finite(t, num) ==
    LET finite == ExpOf(t, num) # ExpMax(t)
    IN then_some(finite, num)

nan2none(t, num) ==
    LET nan == is_nan(t, num)
        ok == ~nan
    IN then_some(ok, num)

(* ---------------------------------------------------------------------- *)
(* PrimitiveBuilder / PrimitiveArray                                       *)
(* ---------------------------------------------------------------------- *)
Max(a, b) == IF a >= b THEN a ELSE b

(* a builder created with c null slots instead of room for c slots *)
with_capacity_filled(c) ==
    [values |-> [i \in 1..c |-> <<0, 0>>], validity |-> [i \in 1..c |-> FALSE],
     capacity |-> c]

with_capacity(c) == [values |-> <<>>, validity |-> <<>>, capacity |-> c]

(* growth of the underlying buffers when an append exceeds the capacity *)
reserve(b) ==
    IF Len(b.values) + 1 > b.capacity
    THEN [b EXCEPT !.capacity = Max(2 * b.capacity, Len(b.values) + 1)]
    ELSE b

(* an append that does not grow a full buffer *)
append_value_bounded(b, v) ==
    IF Len(b.values) >= b.capacity THEN b
    ELSE [b EXCEPT !.values = Append(@, v), !.validity = Append(@, TRUE)]

append_value(b, v) ==
    LET g == reserve(b)
    IN [g EXCEPT !.values = Append(@, v), !.validity = Append(@, TRUE)]

(* a null inserted at the front instead of appended *)
append_null_front(t, b) ==
    LET g == reserve(b)
    IN [g EXCEPT !.values = <<default(t)>> \o @,
                 !.validity = <<FALSE>> \o @]

append_null(t, b) ==
    LET g == reserve(b)
    IN [g EXCEPT !.values = Append(@, default(t)),
                 !.validity = Append(@, FALSE)]

finish(b) == [values |-> b.values, validity |-> b.validity]

NoArray == [values |-> <<>>, validity |-> <<>>]

ArrLen(a) == Len(a.values)
is_valid(a, i) == a.validity[i]
value(a, i) == a.values[i]
null_count(a) == Cardinality({i \in 1..Len(a.validity) : ~a.validity[i]})

(* ---------------------------------------------------------------------- *)
(* Single element accumulation                                             *)
(* ---------------------------------------------------------------------- *)
num2builder_o(t, num) == nan2none(t, num)

(* a NaN that is skipped instead of appended as null *)
num2builder_skip(t, num, b) ==
    LET opt == num2builder_o(t, num)
    IN IF is_some(opt) THEN append_value(b, unwrap(opt)) ELSE b

num2builder(t, num, b) ==
    LET opt == num2builder_o(t, num)
    IN IF is_some(opt) THEN append_value(b, unwrap(opt))
       ELSE append_null(t, b)

(* an optional passed on without the NaN check *)
opt2builder_o_raw(t, num) == num

(* num.and_then(nan2none::<T>) *)
opt2builder_o(t, num) ==
    IF is_some(num) THEN nan2none(t, unwrap(num)) ELSE None

(* an absent optional stored as the default value *)
opt2builder_or_default(t, num, b) ==
    LET opt == opt2builder_o(t, num)
    IN IF is_some(num)
       THEN (IF is_some(opt) THEN append_value(b, unwrap(opt))
             ELSE append_null(t, b))
       ELSE append_value(b, default(t))

opt2builder(t, num, b) ==
    LET opt == opt2builder_o(t, num)
    IN IF is_some(opt) THEN append_value(b, unwrap(opt))
       ELSE append_null(t, b)

(* ---------------------------------------------------------------------- *)
(* Bulk construction as functions of the whole input                       *)
(* ---------------------------------------------------------------------- *)
RECURSIVE num_fold(_, _, _)
num_fold(t, s, b) ==
    IF s = <<>> THEN b ELSE num_fold(t, Tail(s), num2builder(t, Head(s), b))

num2array(t, num, c) == finish(num_fold(t, num, with_capacity(c)))

RECURSIVE opt_fold(_, _, _)
opt_fold(t, s, b) ==
    IF s = <<>> THEN b ELSE opt_fold(t, Tail(s), opt2builder(t, Head(s), b))

opt2array(t, num, c) == finish(opt_fold(t, num, with_capacity(c)))

CAPACITY_DEFAULT == 1024

num2array_default(t, num) == num2array(t, num, CAPACITY_DEFAULT)
opt2array_default(t, num) == opt2array(t, num, CAPACITY_DEFAULT)

(* the macro generated entry points and the type each is bound to *)
Num2ArrNames == {"num2arr16f", "num2arr32f", "num2arr64f"}
Opt2ArrNames == {"opt2arr16f", "opt2arr32f", "opt2arr64f"}

TypeOf(f) == CASE f \in {"num2arr16f", "opt2arr16f"} -> "Float16Type"
               [] f \in {"num2arr32f", "opt2arr32f"} -> "Float32Type"
               [] f \in {"num2arr64f", "opt2arr64f"} -> "Float64Type"

NumNames == {"num2array", "num2array_default"} \cup Num2ArrNames
OptNames == {"opt2array", "opt2array_default"} \cup Opt2ArrNames

(* ---------------------------------------------------------------------- *)
(* serde_json                                                              *)
(* ---------------------------------------------------------------------- *)
F64 == "Float64Type"

(* u64 / i64 as f64, exact for |i| < 32 *)
Log2(i) == CHOOSE k \in 0..4 : 2 ^ k <= i /\ i < 2 ^ (k + 1)

int2f64(i) ==
    LET a == IF i < 0 THEN -i ELSE i
        s == IF i < 0 THEN 32768 ELSE 0
    IN IF a = 0 THEN Bits(F64, 0, 0)
       ELSE LET k == Log2(a)
            IN Bits(F64, s + (Bias(F64) + k) * 16 + ((a - 2 ^ k) * 16) \div 2 ^ k, 0)

JNum(tag, i, f) == [tag |-> tag, i |-> i, f |-> f]

(* Number variants: PosInt(u64), NegInt(i64), Float(f64), and a number    *)
(* without an f64 view                                                     *)
Numbers ==
    {JNum("PosInt", i, None) : i \in 0..MaxInt}
    \cup {JNum("NegInt", -i, None) : i \in 1..MaxInt}
    \cup {JNum("Float", 0, Some(f)) : f \in Floats(F64) \cup {ThreeHalf(F64)}}
    \cup {JNum("NoF64", 0, None)}

as_f64(num) == CASE num.tag \in {"PosInt", "NegInt"} -> Some(int2f64(num.i))
                 [] num.tag = "Float" -> num.f
                 [] num.tag = "NoF64" -> None

NoNumber == JNum("NoF64", 0, None)

JVal(kind, b, s, num) == [kind |-> kind, b |-> b, s |-> s, num |-> num]

Values ==
    {JVal("Null", FALSE, "", NoNumber), JVal("Array", FALSE, "", NoNumber),
     JVal("Object", FALSE, "", NoNumber)}
    \cup {JVal("Bool", b, "", NoNumber) : b \in BOOLEAN}
    \cup {JVal("String", FALSE, s, NoNumber) : s \in {"", "1.0", "NaN"}}
    \cup {JVal("Number", FALSE, "", num) : num \in Numbers}

NoValue == JVal("Null", FALSE, "", NoNumber)

num2opt(num) ==
    LET of == as_f64(num)
    IN IF is_some(of) THEN nan2none(F64, unwrap(of)) ELSE None

(* a lenient extraction that reads true as 1.0 *)
val2opt_bool(v) ==
    IF v.kind = "Number" THEN num2opt(v.num)
    ELSE IF v.kind = "Bool" /\ v.b THEN Some(One(F64)) ELSE None

val2opt(v) == IF v.kind = "Number" THEN num2opt(v.num) ELSE None

(* ---------------------------------------------------------------------- *)
(* Inputs                                                                  *)
(* ---------------------------------------------------------------------- *)
SeqsUpTo(S, k) == UNION {[1..m -> S] : m \in 0..k}

NumInputs(t) == SeqsUpTo(Floats(t), MaxLen)
OptInputs(t) == SeqsUpTo({None} \cup {Some(x) : x \in Floats(t)}, MaxLen)

CapHints == 0..MaxCap

(* ---------------------------------------------------------------------- *)
(* State machine                                                           *)
(* ---------------------------------------------------------------------- *)
Init ==
    /\ pc = "idle"
    /\ fname = ""
    /\ T = ""
    /\ src = <<>>
    /\ rest = <<>>
    /\ cap = 0
    /\ bldr = with_capacity(0)
    /\ n = None
    /\ o = None
    /\ arr = NoArray
    /\ jv = NoValue
    /\ ret = None
    /\ nAppend = 0
    /\ nFinish = 0

(* entry of num2array / opt2array: the builder is created *)
Enter(f, t, s, c) ==
    /\ pc' = "loop"
    /\ fname' = f
    /\ T' = t
    /\ src' = s
    /\ rest' = s
    /\ cap' = c
    /\ bldr' = with_capacity(c)
    /\ UNCHANGED <<n, o, arr, jv, ret, nAppend, nFinish>>

Call_num2array ==
    /\ pc = "idle"
    /\ \E t \in FloatTypes : \E s \in NumInputs(t) : \E c \in CapHints :
           Enter("num2array", t, s, c)

Call_opt2array ==
    /\ pc = "idle"
    /\ \E t \in FloatTypes : \E s \in OptInputs(t) : \E c \in CapHints :
           Enter("opt2array", t, s, c)

Call_num2array_default ==
    /\ pc = "idle"
    /\ \E t \in FloatTypes : \E s \in NumInputs(t) :
           Enter("num2array_default", t, s, CAPACITY_DEFAULT)

Call_opt2array_default ==
    /\ pc = "idle"
    /\ \E t \in FloatTypes : \E s \in OptInputs(t) :
           Enter("opt2array_default", t, s, CAPACITY_DEFAULT)

Call_num2arr ==
    /\ pc = "idle"
    /\ \E f \in Num2ArrNames : \E s \in NumInputs(TypeOf(f)) :
           Enter(f, TypeOf(f), s, CAPACITY_DEFAULT)

Call_opt2arr ==
    /\ pc = "idle"
    /\ \E f \in Opt2ArrNames : \E s \in OptInputs(TypeOf(f)) :
           Enter(f, TypeOf(f), s, CAPACITY_DEFAULT)

(* one iteration of `for n in num { num2builder(n, &mut bldr); }` *)
Loop_num2array ==
    /\ pc = "loop"
    /\ fname \in NumNames
    /\ rest # <<>>
    /\ n' = Some(Head(rest))
    /\ rest' = Tail(rest)
    /\ o' = num2builder_o(T, Head(rest))
    /\ bldr' = num2builder(T, Head(rest), bldr)
    /\ nAppend' = nAppend + 1
    /\ UNCHANGED <<pc, fname, T, src, cap, arr, jv, ret, nFinish>>

(* one iteration of `for n in num { opt2builder(n, &mut bldr); }` *)
Loop_opt2array ==
    /\ pc = "loop"
    /\ fname \in OptNames
    /\ rest # <<>>
    /\ n' = Some(Head(rest))
    /\ rest' = Tail(rest)
    /\ o' = opt2builder_o(T, Head(rest))
    /\ bldr' = opt2builder(T, Head(rest), bldr)
    /\ nAppend' = nAppend + 1
    /\ UNCHANGED <<pc, fname, T, src, cap, arr, jv, ret, nFinish>>

(* a finish that does not wait for the end of the input *)
Finish_early ==
    /\ pc = "loop"
    /\ arr' = finish(bldr)
    /\ bldr' = with_capacity(0)
    /\ nFinish' = nFinish + 1
    /\ pc' = "done"
    /\ UNCHANGED <<fname, T, src, rest, cap, n, o, jv, ret, nAppend>>

(* the iterator is exhausted: bldr.finish() *)
Finish ==
    /\ pc = "loop"
    /\ rest = <<>>
    /\ arr' = finish(bldr)
    /\ bldr' = with_capacity(0)
    /\ nFinish' = nFinish + 1
    /\ pc' = "done"
    /\ UNCHANGED <<fname, T, src, rest, cap, n, o, jv, ret, nAppend>>

Call_num2opt ==
    /\ pc = "idle"
    /\ \E num \in Numbers :
        /\ pc' = "done"
        /\ fname' = "num2opt"
        /\ jv' = JVal("Number", FALSE, "", num)
        /\ ret' = num2opt(num)
        /\ UNCHANGED <<T, src, rest, cap, bldr, n, o, arr, nAppend, nFinish>>

Call_val2opt ==
    /\ pc = "idle"
    /\ \E v \in Values :
        /\ pc' = "done"
        /\ fname' = "val2opt"
        /\ jv' = v
        /\ ret' = val2opt(v)
        /\ UNCHANGED <<T, src, rest, cap, bldr, n, o, arr, nAppend, nFinish>>

(* the result is handed to the caller and the frame is gone *)
Return ==
    /\ pc = "done"
    /\ pc' = "idle"
    /\ fname' = ""
    /\ T' = ""
    /\ src' = <<>>
    /\ rest' = <<>>
    /\ cap' = 0
    /\ bldr' = with_capacity(0)
    /\ n' = None
    /\ o' = None
    /\ arr' = NoArray
    /\ jv' = NoValue
    /\ ret' = None
    /\ nAppend' = 0
    /\ nFinish' = 0

Next ==
    \/ Call_num2array
    \/ Call_opt2array
    \/ Call_num2array_default
    \/ Call_opt2array_default
    \/ Call_num2arr
    \/ Call_opt2arr
    \/ Loop_num2array
    \/ Loop_opt2array
    \/ Finish
    \/ Call_num2opt
    \/ Call_val2opt
    \/ Return

Spec == Init /\ [][Next]_vars

(* the calls are synchronous: a started loop keeps running to its end *)
FairSpec ==
    /\ Spec
    /\ WF_vars(Loop_num2array)
    /\ WF_vars(Loop_opt2array)
    /\ WF_vars(Finish)

TypeOK ==
    /\ pc \in {"idle", "loop", "done"}
    /\ Len(rest) <= Len(src)
    /\ Len(bldr.values) = Len(bldr.validity)
    /\ Len(bldr.values) <= bldr.capacity

(* ---------------------------------------------------------------------- *)
(* Properties                                                              *)
(* ---------------------------------------------------------------------- *)
(* the NaN encodings among the inputs, independent of is_nan *)
NaNs(t) == {LowNaN(t), NegNaN(t)}

AllCaps == CapHints \cup {CAPACITY_DEFAULT}

Positions(s) == 1..Len(s)

(* C1: the array returned by num2array (and by the entry points built on   *)
(* it) has the length of the input, slot i is valid iff input i is not     *)
(* NaN, and a valid slot holds input i: nothing dropped, duplicated or     *)
(* reordered.                                                              *)
C1_SlotPerElement ==
    (pc = "done" /\ fname \in NumNames) =>
        /\ ArrLen(arr) = Len(src)
        /\ Len(arr.validity) = Len(src)
        /\ \A i \in Positions(src) :
            /\ is_valid(arr, i) <=> src[i] \notin NaNs(T)
            /\ is_valid(arr, i) => value(arr, i) = src[i]

C1_Witness ==
    /\ pc = "done"
    /\ fname = "num2array"
    /\ Len(src) >= 3
    /\ cap < Len(src)
    /\ src[1] = One(T) /\ src[2] \in NaNs(T) /\ src[3] = NegZero(T)
    /\ arr.validity[1] /\ ~arr.validity[2] /\ arr.validity[3]

(* C2: nan2none gives None iff its argument is NaN; every other argument,  *)
(* infinities and negative zero included, comes back as Some of itself and *)
(* num2builder stores it as a valid slot holding that value.               *)
C2_NanToNone ==
    (pc = "loop" /\ fname \in NumNames /\ is_some(n)) =>
        LET x == unwrap(n)
            last == Len(bldr.values)
        IN /\ o = None <=> x \in NaNs(T)
           /\ x \notin NaNs(T) =>
                /\ o = Some(x)
                /\ last >= 1
                /\ bldr.validity[last]
                /\ bldr.values[last] = x
           /\ x \in NaNs(T) => last >= 1 /\ ~bldr.validity[last]

C2_Witness ==
    /\ pc = "loop"
    /\ fname \in NumNames
    /\ n = Some(NegInf(T))
    /\ o = Some(NegInf(T))
    /\ bldr.validity[Len(bldr.values)]
    /\ bldr.values[Len(bldr.values)] = NegInf(T)

(* C3: the array returned by opt2array has the length of the input; slot i *)
(* is null iff input i is None or Some(NaN); a Some of a non-NaN value     *)
(* gives a valid slot holding that value.                                  *)
C3_OptSlots ==
    (pc = "done" /\ fname \in OptNames) =>
        /\ ArrLen(arr) = Len(src)
        /\ Len(arr.validity) = Len(src)
        /\ \A i \in Positions(src) :
            /\ ~is_valid(arr, i) <=>
                   (src[i] = None \/ unwrap(src[i]) \in NaNs(T))
            /\ is_valid(arr, i) => value(arr, i) = unwrap(src[i])

C3_Witness ==
    /\ pc = "done"
    /\ fname = "opt2array"
    /\ Len(src) >= 3
    /\ src[1] = None /\ src[2] = Some(NegNaN(T)) /\ src[3] = Some(PosInf(T))
    /\ ~arr.validity[1] /\ ~arr.validity[2] /\ arr.validity[3]

(* C4: the capacity hint does not change the result: the array returned    *)
(* for an input under one hint is the array that every other hint gives    *)
(* for that input, 0 and hints below the input length included, and the    *)
(* one the default capacity variant gives; the input is stored whole.      *)
C4_CapacityInvariance ==
    (pc = "done" /\ fname \in NumNames \cup OptNames) =>
        /\ ArrLen(arr) = Len(src)
        /\ fname \in NumNames =>
            /\ arr = num2array_default(T, src)
            /\ \A c \in AllCaps : num2array(T, src, c) = arr
        /\ fname \in OptNames =>
            /\ arr = opt2array_default(T, src)
            /\ \A c \in AllCaps : opt2array(T, src, c) = arr

C4_Witness ==
    /\ pc = "done"
    /\ fname = "num2array"
    /\ cap = 0
    /\ Len(src) >= 2
    /\ ArrLen(arr) = Len(src)
    /\ \E i \in Positions(src) : arr.validity[i]

(* C5: an empty input gives an array of length 0 with null count 0 at      *)
(* every bulk entry point.                                                 *)
C5_EmptyInput ==
    (pc = "done" /\ fname \in NumNames \cup OptNames /\ src = <<>>) =>
        /\ ArrLen(arr) = 0
        /\ Len(arr.validity) = 0
        /\ null_count(arr) = 0

C5_Witness ==
    /\ pc = "done"
    /\ fname = "opt2arr16f"
    /\ src = <<>>
    /\ nFinish = 1
    /\ ArrLen(arr) = 0

(* C6: the null count of the array returned by num2array equals the number *)
(* of NaN elements of the input.                                           *)
C6_NullCount ==
    (pc = "done" /\ fname \in NumNames) =>
        null_count(arr) = Cardinality({i \in Positions(src) : src[i] \in NaNs(T)})

C6_Witness ==
    /\ pc = "done"
    /\ fname = "num2arr32f"
    /\ Len(src) >= 3
    /\ \A i \in Positions(src) : src[i] \in NaNs(T)
    /\ null_count(arr) = Len(src)

(* C7: normalization is idempotent and never yields Some(NaN): the         *)
(* normalized value of the element just appended is left alone by the      *)
(* optional normalization, and normalizing an optional twice equals        *)
(* normalizing it once.                                                    *)
C7_Idempotent ==
    (pc = "loop" /\ is_some(n)) =>
        /\ opt2builder_o(T, o) = o
        /\ is_some(o) => unwrap(o) \notin NaNs(T)
        /\ fname \in NumNames =>
               opt2builder_o(T, nan2none(T, unwrap(n))) = nan2none(T, unwrap(n))
        /\ fname \in OptNames =>
               opt2builder_o(T, opt2builder_o(T, unwrap(n)))
                   = opt2builder_o(T, unwrap(n))

C7_Witness ==
    /\ pc = "loop"
    /\ fname \in OptNames
    /\ n = Some(Some(NegNaN(T)))
    /\ o = None

(* C8: val2opt gives None for every value that is not a number and         *)
(* num2opt of the number otherwise; num2opt gives None when the number has *)
(* no f64 view or the view is NaN, and Some of the view otherwise; no      *)
(* result is Some(NaN).                                                    *)
C8_JsonExtraction ==
    (pc = "done" /\ fname \in {"num2opt", "val2opt"}) =>
        /\ (fname = "val2opt" /\ jv.kind # "Number") => ret = None
        /\ (fname = "val2opt" /\ jv.kind = "Number") => ret = num2opt(jv.num)
        /\ jv.kind = "Number" =>
            LET view == as_f64(jv.num)
            IN IF view = None \/ unwrap(view) \in NaNs(F64)
               THEN ret = None
               ELSE ret = view
        /\ is_some(ret) => unwrap(ret) \notin NaNs(F64)

C8_Witness ==
    /\ pc = "done"
    /\ fname = "val2opt"
    /\ jv.kind = "Number"
    /\ jv.num = JNum("PosInt", 1, None)
    /\ ret = Some(One(F64))

(* C9: a run creates the builder, appends once per input element in input  *)
(* order, then finishes exactly once, only when the input is exhausted;    *)
(* nothing is appended after the finish, and a started run reaches it.     *)
C9_Lifecycle ==
    /\ [](/\ nFinish <= 1
          /\ nAppend = Len(src) - Len(rest)
          /\ nFinish = 1 => (pc = "done" /\ rest = <<>> /\ nAppend = Len(src))
          /\ pc = "loop" => (nFinish = 0 /\ Len(bldr.values) = nAppend)
          /\ (pc = "done" /\ fname \in NumNames \cup OptNames) => nFinish = 1)
    /\ [][/\ nAppend' # nAppend =>
               \/ nAppend' = 0
               \/ /\ nAppend' = nAppend + 1
                  /\ nFinish = 0 /\ nFinish' = 0
                  /\ rest # <<>>
                  /\ rest' = Tail(rest)
                  /\ n' = Some(src[nAppend + 1])
          /\ nFinish' # nFinish =>
               \/ nFinish' = 0
               \/ /\ nFinish' = 1
                  /\ rest = <<>>
                  /\ nAppend' = nAppend
                  /\ ArrLen(arr') = Len(src)]_vars
    /\ (pc = "loop") ~> (pc = "done")

C9_Witness ==
    /\ pc = "done"
    /\ fname \in NumNames \cup OptNames
    /\ nFinish = 1
    /\ nAppend >= 3
    /\ nAppend = Len(src)

(* C10: an append by num2builder or opt2builder lengthens the builder by   *)
(* one, puts the new entry last and leaves the earlier entries as they     *)
(* were, for NaN, absent and ordinary elements alike.                      *)
C10_AppendOnly ==
    [][nAppend' = nAppend + 1 =>
        LET k == Len(bldr.values)
        IN /\ Len(bldr'.values) = k + 1
           /\ Len(bldr'.validity) = k + 1
           /\ SubSeq(bldr'.values, 1, k) = bldr.values
           /\ SubSeq(bldr'.validity, 1, k) = bldr.validity
           /\ bldr'.validity[k + 1] = is_some(o')
           /\ is_some(o') => bldr'.values[k + 1] = unwrap(o')]_vars

C10_Witness ==
    /\ pc = "loop"
    /\ fname \in OptNames
    /\ Len(bldr.values) >= 3
    /\ src[1] = Some(One(T)) /\ src[2] = None /\ src[3] = Some(LowNaN(T))
    /\ bldr.validity[1] /\ ~bldr.validity[2] /\ ~bldr.validity[3]
    /\ bldr.values[1] = One(T)

====
